---- MODULE Spec2Model ----
(***************************************************************************)
(* Model of main.ipynb: one notebook cell that reads train.csv / test.csv, *)
(* splits the training table with a random mask, selects the feature       *)
(* columns, fits a ColumnTransformer + LinearRegression pipeline on the    *)
(* training partition, scores it on the validation partition, dumps it to  *)
(* pipeline.pkl, loads it back and predicts on the test table.             *)
(*                                                                         *)
(* The cell is straight-line code, so the state machine has one action per *)
(* statement; an uncaught exception ends the run.  The library calls are   *)
(* modelled by what the configured estimators compute.  Real-valued        *)
(* results are kept exactly: means and variances as reduced fractions, the *)
(* standard deviation by its square, and the least-squares solution by the *)
(* system (X, y) that determines it.                                       *)
(***************************************************************************)
EXTENDS Integers, Sequences, FiniteSets, TLC

VARIABLES pc, error, trace,
          file_train, train_df, test_df, msk, val_df,
          train_features, train_label, val_features, val_label, test_features,
          complete_pipeline, score, artifact, pipeline, predictions, console

data_vars == <<file_train, train_df, test_df, msk, val_df>>
feat_vars == <<train_features, train_label, val_features, val_label, test_features>>
model_vars == <<complete_pipeline, score, artifact, pipeline, predictions, console>>
vars == <<pc, error, trace, data_vars, feat_vars, model_vars>>

----------------------------------------------------------------------------
(* Bounds of the model *)

\* number of rows of train.csv
NRows == 3

\* the value of a name that is not bound yet
None == [undefined |-> TRUE]

----------------------------------------------------------------------------
(* Column groups *)

nominal == <<"MSZoning", "LotShape", "LandContour", "LotConfig", "Neighborhood",
             "Condition1", "BldgType", "RoofStyle",
             "Foundation", "CentralAir", "SaleType", "SaleCondition">>

ordinal == <<"LandSlope", "OverallQual", "OverallCond", "YearRemodAdd",
             "ExterQual", "ExterCond", "BsmtQual", "BsmtCond", "BsmtExposure",
             "KitchenQual", "Functional", "GarageCond", "PavedDrive">>

numerical == <<"LotFrontage", "LotArea", "MasVnrArea", "BsmtFinSF1", "BsmtUnfSF",
               "TotalBsmtSF", "1stFlrSF", "2ndFlrSF", "GrLivArea", "GarageArea",
               "OpenPorchSF">>

\* the label column
SalePrice == "SalePrice"

\* a feature list that leaves the numerical group out
FeatureColumnsShort == nominal \o ordinal

\* nominal + ordinal + numerical
feature_columns == nominal \o ordinal \o numerical

SeqToSet(s) == {s[i] : i \in DOMAIN s}

----------------------------------------------------------------------------
(* Tables *)

\* a missing cell of a text column, and of a number column
NaN == "nan"
NaNNum == -1

\* the cell of a column that holds the same value in every row of the files
\* read (every column but MSZoning, LandSlope, LotFrontage and SalePrice)
ConstantCell(c) ==
    IF \E j \in DOMAIN nominal : nominal[j] = c THEN "Norm"
    ELSE IF \E j \in DOMAIN ordinal : ordinal[j] = c THEN "TA"
    ELSE 0

\* the rows the files are made of
RowDomain ==
    { [MSZoning |-> "RL", LandSlope |-> "Gtl", LotFrontage |-> 60,     SalePrice |-> 100],
      [MSZoning |-> "FV", LandSlope |-> NaN,   LotFrontage |-> 80,     SalePrice |-> 200],
      [MSZoning |-> NaN,  LandSlope |-> "Mod", LotFrontage |-> NaNNum, SalePrice |-> 300] }

\* the header of train.csv and of test.csv (Id stands for the unused columns)
TrainColumns == <<"Id">> \o feature_columns \o <<SalePrice>>
TestColumns == <<"Id">> \o feature_columns

Without(cols, c) == SelectSeq(cols, LAMBDA x : x # c)

\* headers that lack a column the cell asks for
TrainHeadersLacking == {Without(TrainColumns, "MSZoning"), Without(TrainColumns, SalePrice)}
TestHeadersLacking == {Without(TestColumns, "GarageArea")}

Restrict(f, S) == [c \in (DOMAIN f) \cap S |-> f[c]]

\* pd.read_csv: a table with a RangeIndex
DataFrame(columns, rows) ==
    [columns |-> columns,
     index   |-> [i \in DOMAIN rows |-> i - 1],
     data    |-> [i \in DOMAIN rows |-> Restrict(rows[i], SeqToSet(columns))]]

\* the contents train.csv may have: NRows rows under the full header, or
\* NRows equal rows under a header that lacks a column
TrainFiles ==
    {DataFrame(TrainColumns, r) : r \in [1..NRows -> RowDomain]}
        \cup {DataFrame(h, [i \in 1..NRows |-> r]) : h \in TrainHeadersLacking, r \in RowDomain}

\* the contents test.csv may have: one row or none under the full header, or
\* one row under a header that lacks a column
TestFiles ==
    {DataFrame(TestColumns, <<r>>) : r \in RowDomain}
        \cup {DataFrame(TestColumns, <<>>)}
        \cup {DataFrame(h, <<r>>) : h \in TestHeadersLacking, r \in {x \in RowDomain : x.MSZoning = NaN}}

Len0(df) == Len(df.index)

\* df.loc[i, c] by position
Cell(df, i, c) == IF c \in DOMAIN df.data[i] THEN df.data[i][c] ELSE ConstantCell(c)

\* the positions a boolean mask keeps, in order
Kept(mask) == SelectSeq([i \in DOMAIN mask |-> i], LAMBDA i : mask[i])

\* df[mask]
BoolIndex(df, mask) ==
    LET k == Kept(mask) IN
    [columns |-> df.columns,
     index   |-> [j \in DOMAIN k |-> df.index[k[j]]],
     data    |-> [j \in DOMAIN k |-> df.data[k[j]]]]

\* a mask used twice without the negation
NotInverted(mask) == mask

\* ~mask
Invert(mask) == [i \in DOMAIN mask |-> ~mask[i]]

\* df[cols] raises KeyError when a name of cols is no column of df
KeyError(df, cols) == ~(SeqToSet(cols) \subseteq SeqToSet(df.columns))

\* df[cols]
GetColumns(df, cols) ==
    [columns |-> cols,
     index   |-> df.index,
     data    |-> [i \in DOMAIN df.data |-> Restrict(df.data[i], SeqToSet(cols))]]

\* df[c], a Series
GetSeries(df, c) ==
    [index |-> df.index, values |-> [i \in DOMAIN df.data |-> Cell(df, i, c)]]

----------------------------------------------------------------------------
(* Exact arithmetic: a real number is a reduced fraction [n, d] with d > 0;  *)
(* [n |-> 0, d |-> 0] is nan                                                 *)

RECURSIVE GCD(_, _)
GCD(a, b) == IF b = 0 THEN a ELSE GCD(b, a % b)

Abs(a) == IF a < 0 THEN -a ELSE a

Frac(n, d) ==
    LET g == GCD(Abs(n), Abs(d))
        sgn == IF d < 0 THEN -1 ELSE 1
    IN [n |-> sgn * (n \div g), d |-> sgn * (d \div g)]

nan == [n |-> 0, d |-> 0]

Real(x) == [n |-> x, d |-> 1]
Plus(a, b) == Frac(a.n * b.d + b.n * a.d, a.d * b.d)
Minus(a, b) == Frac(a.n * b.d - b.n * a.d, a.d * b.d)
Times(a, b) == Frac(a.n * b.n, a.d * b.d)
Over(a, k) == Frac(a.n, a.d * k)

RECURSIVE Sum(_)
Sum(s) == IF s = <<>> THEN Real(0) ELSE Plus(Head(s), Sum(Tail(s)))

----------------------------------------------------------------------------
(* Arrays *)

\* the order of str on the text cells of the files
Lexicographic == <<"FV", "Gtl", "Mod", "Norm", "RL", "TA", "nan">>

Ord(s) == CHOOSE k \in DOMAIN Lexicographic : Lexicographic[k] = s

Smallest(S) == CHOOSE x \in S : \A y \in S : Ord(x) <= Ord(y)

\* np.unique of a text column: the distinct values, sorted
RECURSIVE Unique(_)
Unique(S) == IF S = {} THEN <<>> ELSE <<Smallest(S)>> \o Unique(S \ {Smallest(S)})

\* an array is M with its entries computed once, when it is made (the
\* comparison makes TLC evaluate the function constructors of M)
Array(M) == IF M = M THEN M ELSE M

\* X[cols] as an array, as ColumnTransformer hands it to a transformer
Values(df, cols) ==
    Array([i \in 1..Len0(df) |-> [j \in DOMAIN cols |-> Cell(df, i, cols[j])]])

\* the number cells as reals
AsReal(M) ==
    Array([i \in DOMAIN M |->
              [j \in DOMAIN M[i] |-> IF M[i][j] = NaNNum THEN nan ELSE Real(M[i][j])]])

Col(M, j) == [i \in DOMAIN M |-> M[i][j]]

RECURSIVE Flatten(_)
Flatten(ss) == IF ss = <<>> THEN <<>> ELSE Head(ss) \o Flatten(Tail(ss))

\* np.hstack of blocks with the same number of rows
HStack(blocks) ==
    [i \in DOMAIN blocks[1] |-> Flatten([b \in DOMAIN blocks |-> blocks[b][i]])]

----------------------------------------------------------------------------
(* SimpleImputer *)

\* strategy='most_frequent': the most frequent observed value of a column,
\* the smallest one among ties; nan when nothing was observed
MostFrequent(col) ==
    LET obs == SeqToSet(col) \ {NaN}
        count(v) == Cardinality({i \in DOMAIN col : col[i] = v})
        best == {v \in obs : \A w \in obs : count(w) <= count(v)}
    IN IF obs = {} THEN NaN ELSE Smallest(best)

\* strategy='mean': the mean of the observed values of a column; nan when
\* nothing was observed
Mean(col) ==
    LET obs == SelectSeq(col, LAMBDA x : x # nan)
    IN IF obs = <<>> THEN nan ELSE Over(Sum(obs), Len(obs))

\* SimpleImputer(strategy='most_frequent').fit
MostFrequentImputerFit(M, width) ==
    [statistics_ |-> Array([j \in 1..width |-> MostFrequent(Col(M, j))])]

\* SimpleImputer(strategy='mean').fit
MeanImputerFit(M, width) ==
    [statistics_ |-> Array([j \in 1..width |-> Mean(Col(M, j))])]

\* the columns transform keeps: those with an observed value at fit time
ValidColumns(imputer, missing) ==
    SelectSeq([j \in DOMAIN imputer.statistics_ |-> j],
              LAMBDA j : imputer.statistics_[j] # missing)

\* SimpleImputer.transform: missing cells take the fitted statistic, columns
\* without one are dropped
ImputerTransform(imputer, missing, M) ==
    LET keep == ValidColumns(imputer, missing) IN
    Array([i \in DOMAIN M |->
              [k \in DOMAIN keep |->
                  IF M[i][keep[k]] = missing THEN imputer.statistics_[keep[k]]
                  ELSE M[i][keep[k]]]])

----------------------------------------------------------------------------
(* Encoders and scaler *)

\* the distinct values of a column in the order of their first occurrence
RECURSIVE Encounter(_)
Encounter(col) ==
    IF col = <<>> THEN <<>>
    ELSE LET before == Encounter(SubSeq(col, 1, Len(col) - 1))
             x == col[Len(col)]
         IN IF x \in SeqToSet(before) THEN before ELSE Append(before, x)

\* an encoder that numbers the categories as it meets them
EncoderFitEncounterOrder(M, width) ==
    [categories_ |-> Array([j \in 1..width |-> Encounter(Col(M, j))])]

\* OneHotEncoder.fit / OrdinalEncoder.fit with categories='auto'
EncoderFit(M, width) ==
    [categories_ |-> Array([j \in 1..width |-> Unique(SeqToSet(Col(M, j)))])]

\* the position of v in cats, counted from 0 (an unknown v has none)
IndexOf(cats, v) ==
    IF v \in SeqToSet(cats) THEN (CHOOSE k \in DOMAIN cats : cats[k] = v) - 1 ELSE -1

\* a cell holds a category that was not seen at fit time
UnknownCategories(encoder, M) ==
    \E i \in DOMAIN M : \E j \in DOMAIN M[i] :
        M[i][j] \notin SeqToSet(encoder.categories_[j])

\* OneHotEncoder(handle_unknown="ignore").transform: one indicator per fitted
\* category; an unknown category sets none of them
OneHotTransform(encoder, M) ==
    [i \in DOMAIN M |->
        Flatten([j \in DOMAIN M[i] |->
            [k \in DOMAIN encoder.categories_[j] |->
                IF encoder.categories_[j][k] = M[i][j] THEN 1 ELSE 0]])]

\* a OneHotEncoder left at its default
NominalHandleUnknownDefault == "error"

\* handle_unknown of the OneHotEncoder of nominal_pipeline
nominal_handle_unknown == "ignore"

\* an OrdinalEncoder told to encode unknown categories
OrdinalHandleUnknownEncoded == "use_encoded_value"

\* handle_unknown of the OrdinalEncoder of ordinal_pipeline (the default)
ordinal_handle_unknown == "error"

\* an encoder's transform raises ValueError on an unknown category unless it
\* is told to ignore them
EncoderRaises(handle_unknown, encoder, M) ==
    handle_unknown = "error" /\ UnknownCategories(encoder, M)

\* OrdinalEncoder.transform: the position of the category
OrdinalTransform(encoder, M) ==
    [i \in DOMAIN M |->
        [j \in DOMAIN M[i] |-> IndexOf(encoder.categories_[j], M[i][j])]]

\* StandardScaler.fit: mean_, var_ (population variance) and scale_, kept as
\* its square; a zero variance scales by 1
ScalerFit(M, width) ==
    LET n == Len(M)
        mean == Array([j \in 1..width |-> Over(Sum(Col(M, j)), n)])
        deviation == Array([i \in DOMAIN M |-> [j \in 1..width |-> Minus(M[i][j], mean[j])]])
        var == Array([j \in 1..width |->
                   Over(Sum([i \in DOMAIN M |-> Times(deviation[i][j], deviation[i][j])]), n)])
    IN [mean_ |-> mean,
        var_  |-> var,
        scale_squared |-> [j \in 1..width |->
                              IF var[j] = Real(0) THEN Real(1) ELSE var[j]]]

\* StandardScaler.transform: (x - mean_) / scale_
ScalerTransform(scaler, M) ==
    [i \in DOMAIN M |->
        [j \in DOMAIN M[i] |->
            [centered |-> Minus(M[i][j], scaler.mean_[j]),
             scale_squared |-> scaler.scale_squared[j]]]]

----------------------------------------------------------------------------
(* Pipelines *)

\* nominal_pipeline.fit
NominalFit(M) ==
    LET imputer == MostFrequentImputerFit(M, Len(nominal))
        Xt == ImputerTransform(imputer, NaN, M)
    IN [imputer |-> imputer,
        encoder |-> EncoderFit(Xt, Len(ValidColumns(imputer, NaN)))]

\* nominal_pipeline.transform raises
NominalRaises(p, M) ==
    EncoderRaises(nominal_handle_unknown, p.encoder, ImputerTransform(p.imputer, NaN, M))

\* nominal_pipeline.transform
NominalTransform(p, M) == OneHotTransform(p.encoder, ImputerTransform(p.imputer, NaN, M))

\* ordinal_pipeline.fit
OrdinalFit(M) ==
    LET imputer == MostFrequentImputerFit(M, Len(ordinal))
        Xt == ImputerTransform(imputer, NaN, M)
    IN [imputer |-> imputer,
        encoder |-> EncoderFit(Xt, Len(ValidColumns(imputer, NaN)))]

\* ordinal_pipeline.transform raises
OrdinalRaises(p, M) ==
    EncoderRaises(ordinal_handle_unknown, p.encoder, ImputerTransform(p.imputer, NaN, M))

\* ordinal_pipeline.transform
OrdinalPipelineTransform(p, M) ==
    OrdinalTransform(p.encoder, ImputerTransform(p.imputer, NaN, M))

\* numerical_pipeline.fit
NumericalFit(M) ==
    LET imputer == MeanImputerFit(M, Len(numerical))
        Xt == ImputerTransform(imputer, nan, M)
    IN [imputer |-> imputer,
        scaler  |-> ScalerFit(Xt, Len(ValidColumns(imputer, nan)))]

\* numerical_pipeline.transform
NumericalTransform(p, M) == ScalerTransform(p.scaler, ImputerTransform(p.imputer, nan, M))

\* preprocessing_pipeline.fit
ColumnTransformerFit(X) ==
    [nominal_preprocessor   |-> NominalFit(Values(X, nominal)),
     ordinal_preprocessor   |-> OrdinalFit(Values(X, ordinal)),
     numerical_preprocessor |-> NumericalFit(AsReal(Values(X, numerical)))]

\* the blocks in another order than the transformers list
BlocksMisordered(ct, X) ==
    <<OrdinalPipelineTransform(ct.ordinal_preprocessor, Values(X, ordinal)),
      NominalTransform(ct.nominal_preprocessor, Values(X, nominal)),
      NumericalTransform(ct.numerical_preprocessor, AsReal(Values(X, numerical)))>>

\* the three blocks preprocessing_pipeline.transform computes, in the order of
\* its transformers list
Blocks(ct, X) ==
    <<NominalTransform(ct.nominal_preprocessor, Values(X, nominal)),
      OrdinalPipelineTransform(ct.ordinal_preprocessor, Values(X, ordinal)),
      NumericalTransform(ct.numerical_preprocessor, AsReal(Values(X, numerical)))>>

\* preprocessing_pipeline.transform raises: no rows to transform, a listed
\* column absent, or an encoder raises
TransformRaises(ct, X) ==
    \/ Len0(X) = 0
    \/ KeyError(X, feature_columns)
    \/ NominalRaises(ct.nominal_preprocessor, Values(X, nominal))
    \/ OrdinalRaises(ct.ordinal_preprocessor, Values(X, ordinal))

\* preprocessing_pipeline.transform
ColumnTransformerTransform(ct, X) == HStack(Blocks(ct, X))

\* LinearRegression().fit: coef_ and intercept_ are the least-squares solution
\* of (X, y), kept as that system
LinearRegressionFit(X, y) == [lstsq_X |-> X, lstsq_y |-> y]

\* LinearRegression.predict: X @ coef_ + intercept_, kept as the product
LinearRegressionPredict(estimator, X) == [coef_ |-> estimator, X |-> X]

\* the pipeline as constructed, before fit
Unfitted == [steps |-> <<"preprocessor", "estimator">>]

\* complete_pipeline.fit raises: no training rows
FitRaises(X) == Len0(X) = 0

\* complete_pipeline.fit(X, y)
PipelineFit(X, y) ==
    LET ct == ColumnTransformerFit(X) IN
    [steps |-> <<"preprocessor", "estimator">>,
     preprocessor |-> ct,
     estimator |-> LinearRegressionFit(ColumnTransformerTransform(ct, X), y.values)]

\* p.predict(X)
PipelinePredict(p, X) ==
    LinearRegressionPredict(p.estimator, ColumnTransformerTransform(p.preprocessor, X))

\* p.score(X, y): r2_score(y, p.predict(X)), kept as its two arguments
PipelineScore(p, X, y) == [y_true |-> y.values, y_pred |-> PipelinePredict(p, X)]

----------------------------------------------------------------------------
(* pipeline.pkl *)

\* the fitted objects of a pipeline, by their place in it
Members ==
    <<"nominal_preprocessor", "ordinal_preprocessor", "numerical_preprocessor">>

\* a stream that holds the estimator as constructed, without what fit learned
PickleWithoutCoefficients(p) ==
    [k \in DOMAIN Members |->
        [name |-> Members[k], state |-> p.preprocessor[Members[k]]]]
    \o <<[name |-> "estimator", state |-> LinearRegressionFit(<<>>, <<>>)]>>

\* joblib.dump: the stream of the pipeline's fitted objects, in the order of
\* its steps
Pickle(p) ==
    [k \in DOMAIN Members |->
        [name |-> Members[k], state |-> p.preprocessor[Members[k]]]]
    \o <<[name |-> "estimator", state |-> p.estimator]>>

\* the state stored under a name in a stream
StateOf(stream, name) ==
    stream[CHOOSE k \in DOMAIN stream : stream[k].name = name].state

\* joblib.load: the pipeline rebuilt from the stream
Unpickle(stream) ==
    [steps |-> <<"preprocessor", "estimator">>,
     preprocessor |-> [m \in SeqToSet(Members) |-> StateOf(stream, m)],
     estimator |-> StateOf(stream, "estimator")]

----------------------------------------------------------------------------
(* The run *)

\* the score printed only after the pipeline is saved
StagesPrintLate == <<"read_train", "read_test", "split", "select_train", "select_val",
                     "select_test", "construct", "fit", "score", "dump", "print_score",
                     "load", "predict", "print_predictions">>

\* the statements of the cell, in order
Stages == <<"read_train", "read_test", "split", "select_train", "select_val",
            "select_test", "construct", "fit", "score", "print_score", "dump",
            "load", "predict", "print_predictions">>

\* the statement after stage s
Following(s) ==
    LET i == CHOOSE k \in DOMAIN Stages : Stages[k] = s
    IN IF i = Len(Stages) THEN "done" ELSE Stages[i + 1]

\* stage s completes: control moves to the next statement
Proceed(s) ==
    /\ pc' = Following(s)
    /\ trace' = Append(trace, s)
    /\ error' = error

\* an exception that is swallowed: the cell goes on with the next statement
RaiseAndContinue(s) ==
    /\ pc' = Following(s)
    /\ trace' = Append(trace, s)
    /\ error' = s
    /\ UNCHANGED <<data_vars, feat_vars, model_vars>>

\* stage s raises: the exception is not caught, the cell stops
Raise(s) ==
    /\ pc' = "aborted"
    /\ trace' = Append(trace, s)
    /\ error' = s
    /\ UNCHANGED <<data_vars, feat_vars, model_vars>>

Init ==
    /\ pc = "read_train"
    /\ error = "none"
    /\ trace = <<>>
    /\ file_train = None
    /\ train_df = None
    /\ test_df = None
    /\ msk = <<>>
    /\ val_df = None
    /\ train_features = None
    /\ train_label = None
    /\ val_features = None
    /\ val_label = None
    /\ test_features = None
    /\ complete_pipeline = None
    /\ score = None
    /\ artifact = <<>>
    /\ pipeline = None
    /\ predictions = None
    /\ console = <<>>

\* train_df = pd.read_csv('./train.csv')
ReadTrain ==
    /\ pc = "read_train"
    /\ \/ \E f \in TrainFiles :
            /\ train_df' = f
            /\ file_train' = f
            /\ Proceed("read_train")
            /\ UNCHANGED <<test_df, msk, val_df, feat_vars, model_vars>>
       \/ Raise("read_train")

\* test_df = pd.read_csv('./test.csv')
ReadTest ==
    /\ pc = "read_test"
    /\ \/ \E f \in TestFiles :
            /\ test_df' = f
            /\ Proceed("read_test")
            /\ UNCHANGED <<file_train, train_df, msk, val_df, feat_vars, model_vars>>
       \/ Raise("read_test")

\* msk = np.random.rand(len(train_df)) < 0.8
\* val_df = train_df[~msk]; train_df = train_df[msk]
Split ==
    /\ pc = "split"
    /\ \E m \in [1..Len0(train_df) -> BOOLEAN] :
            /\ msk' = m
            /\ val_df' = BoolIndex(train_df, Invert(m))
            /\ train_df' = BoolIndex(train_df, m)
    /\ Proceed("split")
    /\ UNCHANGED <<file_train, test_df, feat_vars, model_vars>>

\* train_features = train_df[nominal + ordinal + numerical]
\* train_label = train_df['SalePrice']
SelectTrain ==
    /\ pc = "select_train"
    /\ IF KeyError(train_df, feature_columns) \/ KeyError(train_df, <<SalePrice>>)
       THEN Raise("select_train")
       ELSE /\ train_features' = GetColumns(train_df, feature_columns)
            /\ train_label' = GetSeries(train_df, SalePrice)
            /\ Proceed("select_train")
            /\ UNCHANGED <<data_vars, val_features, val_label, test_features, model_vars>>

\* val_features = val_df[nominal + ordinal + numerical]
\* val_label = val_df['SalePrice']
SelectVal ==
    /\ pc = "select_val"
    /\ IF KeyError(val_df, feature_columns) \/ KeyError(val_df, <<SalePrice>>)
       THEN Raise("select_val")
       ELSE /\ val_features' = GetColumns(val_df, feature_columns)
            /\ val_label' = GetSeries(val_df, SalePrice)
            /\ Proceed("select_val")
            /\ UNCHANGED <<data_vars, train_features, train_label, test_features, model_vars>>

\* test_features = test_df[nominal + ordinal + numerical]
SelectTest ==
    /\ pc = "select_test"
    /\ IF KeyError(test_df, feature_columns)
       THEN Raise("select_test")
       ELSE /\ test_features' = GetColumns(test_df, feature_columns)
            /\ Proceed("select_test")
            /\ UNCHANGED <<data_vars, train_features, train_label, val_features, val_label, model_vars>>

\* the Pipeline / ColumnTransformer constructors
Construct ==
    /\ pc = "construct"
    /\ complete_pipeline' = Unfitted
    /\ Proceed("construct")
    /\ UNCHANGED <<data_vars, feat_vars, score, artifact, pipeline, predictions, console>>

\* complete_pipeline.fit(train_features, train_label)
Fit ==
    /\ pc = "fit"
    /\ IF FitRaises(train_features)
       THEN Raise("fit")
       ELSE /\ complete_pipeline' = PipelineFit(train_features, train_label)
            /\ Proceed("fit")
            /\ UNCHANGED <<data_vars, feat_vars, score, artifact, pipeline, predictions, console>>

\* a score that fits the pipeline again, on the validation partition
ScoreRefit ==
    /\ pc = "score"
    /\ IF TransformRaises(complete_pipeline.preprocessor, val_features)
       THEN Raise("score")
       ELSE /\ complete_pipeline' = PipelineFit(val_features, val_label)
            /\ score' = PipelineScore(PipelineFit(val_features, val_label),
                                      val_features, val_label)
            /\ Proceed("score")
            /\ UNCHANGED <<data_vars, feat_vars, artifact, pipeline, predictions, console>>

\* score = complete_pipeline.score(val_features, val_label)
Score ==
    /\ pc = "score"
    /\ IF TransformRaises(complete_pipeline.preprocessor, val_features)
       THEN Raise("score")
       ELSE /\ score' = PipelineScore(complete_pipeline, val_features, val_label)
            /\ Proceed("score")
            /\ UNCHANGED <<data_vars, feat_vars, complete_pipeline, artifact, pipeline,
                           predictions, console>>

\* print("Validation score:", score)
PrintScore ==
    /\ pc = "print_score"
    /\ console' = Append(console, [text |-> "Validation score:", value |-> score])
    /\ Proceed("print_score")
    /\ UNCHANGED <<data_vars, feat_vars, complete_pipeline, score, artifact, pipeline,
                   predictions>>

\* joblib.dump(complete_pipeline, pipeline_filename)
Dump ==
    /\ pc = "dump"
    /\ \/ /\ artifact' = Pickle(complete_pipeline)
          /\ Proceed("dump")
          /\ UNCHANGED <<data_vars, feat_vars, complete_pipeline, score, pipeline,
                         predictions, console>>
       \/ Raise("dump")

\* pipeline = joblib.load(pipeline_filename)
Load ==
    /\ pc = "load"
    /\ \/ /\ pipeline' = Unpickle(artifact)
          /\ Proceed("load")
          /\ UNCHANGED <<data_vars, feat_vars, complete_pipeline, score, artifact,
                         predictions, console>>
       \/ Raise("load")

\* predictions = pipeline.predict(test_df)
Predict ==
    /\ pc = "predict"
    /\ IF TransformRaises(pipeline.preprocessor, test_df)
       THEN Raise("predict")
       ELSE /\ predictions' = PipelinePredict(pipeline, test_df)
            /\ Proceed("predict")
            /\ UNCHANGED <<data_vars, feat_vars, complete_pipeline, score, artifact,
                           pipeline, console>>

\* print(predictions)
PrintPredictions ==
    /\ pc = "print_predictions"
    /\ console' = Append(console, [text |-> "", value |-> predictions])
    /\ Proceed("print_predictions")
    /\ UNCHANGED <<data_vars, feat_vars, complete_pipeline, score, artifact, pipeline,
                   predictions>>

Next ==
    \/ ReadTrain
    \/ ReadTest
    \/ Split
    \/ SelectTrain
    \/ SelectVal
    \/ SelectTest
    \/ Construct
    \/ Fit
    \/ Score
    \/ PrintScore
    \/ Dump
    \/ Load
    \/ Predict
    \/ PrintPredictions

Spec == Init /\ [][Next]_vars

----------------------------------------------------------------------------
(* Properties *)

\* stage s was executed (it completed or it raised)
Ran(s) == \E k \in DOMAIN trace : trace[k] = s

\* stage s was executed and did not raise
Completed(s) == Ran(s) /\ error # s

StageIndex(s) == CHOOSE k \in DOMAIN Stages : Stages[k] = s

IndexSet(df) == SeqToSet(df.index)

\* the rows of train.csv the mask keeps, as read
TrainingPartition == BoolIndex(file_train, msk)

\* what a fit on the training partition alone learns
FitOnTrainingPartition ==
    PipelineFit(GetColumns(TrainingPartition, feature_columns),
                GetSeries(TrainingPartition, SalePrice))

\* C1: the fitted parameters of complete_pipeline, and of the pipeline loaded
\* back, are at every step after the fit exactly what a fit on the training
\* partition learns: they are a function of the training rows alone, so neither
\* score on the validation data nor predict on the test data changes them, and
\* two runs that differ only in validation or test values hold the same ones.
C1_FittedOnTrainingOnly ==
    Completed("fit") =>
        LET fitted == FitOnTrainingPartition IN
        /\ complete_pipeline = fitted
        /\ Completed("load") => pipeline = fitted

\* C1 witness: score and predict have both run on data a fit would have
\* learned other parameters from.
C1_Witness ==
    /\ Completed("predict")
    /\ PipelineFit(val_features, val_label) # complete_pipeline
    /\ test_df.data # train_features.data

\* C2: after the split, train_df and val_df hold disjoint sets of rows of
\* train.csv whose union is all of them, each row as it was read, row k in
\* train_df exactly when the mask is true at k; the selected feature tables and
\* labels hold the rows of their partition; this stays so at every later step.
C2_Partition ==
    /\ Completed("split") =>
        /\ IndexSet(train_df) \cap IndexSet(val_df) = {}
        /\ IndexSet(train_df) \cup IndexSet(val_df) = IndexSet(file_train)
        /\ Len0(train_df) + Len0(val_df) = Len0(file_train)
        /\ \A k \in DOMAIN msk : msk[k] <=> (file_train.index[k] \in IndexSet(train_df))
        /\ \A i \in DOMAIN train_df.index :
               train_df.data[i] = file_train.data[train_df.index[i] + 1]
        /\ \A i \in DOMAIN val_df.index :
               val_df.data[i] = file_train.data[val_df.index[i] + 1]
    /\ Completed("select_train") =>
        /\ train_features.index = train_df.index
        /\ train_label.index = train_df.index
    /\ Completed("select_val") =>
        /\ val_features.index = val_df.index
        /\ val_label.index = val_df.index

\* C2 witness: the run is over and both partitions hold rows.
C2_Witness == pc = "done" /\ Len0(train_df) >= 1 /\ Len0(val_df) >= 1

RECURSIVE TotalLen(_)
TotalLen(ss) == IF ss = <<>> THEN 0 ELSE Len(Head(ss)) + TotalLen(Tail(ss))

\* where the indicators of encoded column k start in a one-hot row
Offset(cats, k) == TotalLen(SubSeq(cats, 1, k - 1))

\* the nominal cells of table T after imputation
NominalImputed(p, T) == ImputerTransform(p.imputer, NaN, Values(T, nominal))

\* a nominal cell of T holds a category the fit did not observe
UnseenNominal(p, T) == UnknownCategories(p.encoder, NominalImputed(p, T))

NominalIgnoresUnknown(p, T) ==
    LET M == NominalImputed(p, T)
        out == NominalTransform(p, Values(T, nominal))
        cats == p.encoder.categories_
    IN /\ ~NominalRaises(p, Values(T, nominal))
       /\ Len(out) = Len(M)
       /\ \A i \in DOMAIN M :
            /\ Len(out[i]) = TotalLen(cats)
            /\ \A k \in DOMAIN cats :
                 M[i][k] \notin SeqToSet(cats[k]) =>
                     \A q \in 1..Len(cats[k]) : out[i][Offset(cats, k) + q] = 0

\* C3: for the validation table and the test table, the nominal transform
\* does not raise on a category that was not observed at fit time, the
\* indicators of that column are all zero in that row, and every row has
\* one indicator per category observed at fit time; score and predict raise
\* only when there are no rows or the ordinal encoder raises.
C3_NominalUnknownIgnored ==
    /\ Completed("fit") =>
        /\ NominalIgnoresUnknown(complete_pipeline.preprocessor.nominal_preprocessor, val_features)
        /\ NominalIgnoresUnknown(complete_pipeline.preprocessor.nominal_preprocessor, test_df)
    /\ error = "score" =>
        \/ Len0(val_features) = 0
        \/ OrdinalRaises(complete_pipeline.preprocessor.ordinal_preprocessor,
                         Values(val_features, ordinal))
    /\ error = "predict" =>
        \/ Len0(test_df) = 0
        \/ OrdinalRaises(pipeline.preprocessor.ordinal_preprocessor, Values(test_df, ordinal))

\* C3 witness: score completed on a validation row with a nominal category
\* that the training partition does not hold.
C3_Witness ==
    /\ Completed("score")
    /\ UnseenNominal(complete_pipeline.preprocessor.nominal_preprocessor, val_features)

SamePredictions(p, q, T) ==
    /\ TransformRaises(p.preprocessor, T) <=> TransformRaises(q.preprocessor, T)
    /\ ~TransformRaises(p.preprocessor, T) => PipelinePredict(p, T) = PipelinePredict(q, T)

\* C4: the pipeline loaded from pipeline.pkl holds the fitted parameters of
\* complete_pipeline, it predicts what complete_pipeline predicts on every
\* table of the run, and the predictions printed are complete_pipeline's
\* predictions on test_features.
C4_SaveLoadRoundTrip ==
    /\ Completed("load") =>
        /\ pipeline = complete_pipeline
        /\ SamePredictions(pipeline, complete_pipeline, train_features)
        /\ SamePredictions(pipeline, complete_pipeline, val_features)
        /\ SamePredictions(pipeline, complete_pipeline, test_df)
    /\ Completed("print_predictions") =>
        console[Len(console)].value = PipelinePredict(complete_pipeline, test_features)

\* C4 witness: predictions of the loaded pipeline were printed.
C4_Witness == Completed("print_predictions") /\ Len0(test_df) >= 1

NominalWidth(ct) == TotalLen(ct.nominal_preprocessor.encoder.categories_)
OrdinalWidth(ct) == Len(ValidColumns(ct.ordinal_preprocessor.imputer, NaN))
NumericalWidth(ct) == Len(ValidColumns(ct.numerical_preprocessor.imputer, nan))

\* row i of T as a table of its own
OneRow(T, i) == BoolIndex(T, [k \in DOMAIN T.index |-> k = i])

\* X is the matrix the program computed for table T
Assembled(ct, X, T) ==
    LET nominal_block == NominalTransform(ct.nominal_preprocessor, Values(T, nominal))
        ordinal_block == OrdinalPipelineTransform(ct.ordinal_preprocessor, Values(T, ordinal))
        numerical_block == NumericalTransform(ct.numerical_preprocessor,
                                              AsReal(Values(T, numerical)))
        width == NominalWidth(ct) + OrdinalWidth(ct) + NumericalWidth(ct)
    IN /\ Len(X) = Len0(T)
       /\ \A i \in DOMAIN X :
            /\ X[i] = nominal_block[i] \o ordinal_block[i] \o numerical_block[i]
            /\ Len(X[i]) = width
            /\ X[i] = ColumnTransformerTransform(ct, OneRow(T, i))[1]

\* C5: the matrix fit hands the estimator for the training table, the one
\* score computes for the validation table and the one predict computes for
\* the test table are each the nominal block, then the ordinal block, then the
\* numerical block; every row is as wide as the three fitted widths together,
\* the same for the three tables; row i is the transform of input row i.
C5_Assembly ==
    /\ Completed("fit") =>
        Assembled(complete_pipeline.preprocessor,
                  complete_pipeline.estimator.lstsq_X, train_features)
    /\ Completed("score") =>
        Assembled(complete_pipeline.preprocessor, score.y_pred.X, val_features)
    /\ Completed("predict") =>
        Assembled(complete_pipeline.preprocessor, predictions.X, test_df)

\* C5 witness: the three matrices were computed and the ordinal block is not
\* a copy of the start of the nominal block.
C5_Witness ==
    /\ Completed("predict")
    /\ Blocks(complete_pipeline.preprocessor, test_df)
         # BlocksMisordered(complete_pipeline.preprocessor, test_df)

\* the ordinal cells of the training table after imputation
OrdinalImputedTrain ==
    ImputerTransform(complete_pipeline.preprocessor.ordinal_preprocessor.imputer, NaN,
                     Values(train_features, ordinal))

OrdinalCategories == complete_pipeline.preprocessor.ordinal_preprocessor.encoder.categories_

\* the ranks the fitted pipeline gave the training rows: the ordinal block of
\* the matrix the estimator was fitted on
OrdinalRanks ==
    LET X == complete_pipeline.estimator.lstsq_X
        first == NominalWidth(complete_pipeline.preprocessor)
    IN [i \in DOMAIN X |-> [k \in DOMAIN OrdinalCategories |-> X[i][first + k]]]

\* C6 as stated: the rank of a category of an ordinal column is its place in
\* the order in which the categories were first met in the training rows.
C6_EncounterOrder ==
    Completed("fit") =>
        LET M == OrdinalImputedTrain
            rank == OrdinalRanks
        IN \A k \in DOMAIN OrdinalCategories :
            LET met == Encounter(Col(M, k)) IN
            \A i \in DOMAIN M : rank[i][k] = IndexOf(met, M[i][k])

\* C6 amended: the rank of a category of an ordinal column is the number of
\* distinct categories of the imputed training column that sort before it,
\* whatever the order of the training rows.
C6_SortedOrder ==
    Completed("fit") =>
        LET M == OrdinalImputedTrain
            rank == OrdinalRanks
        IN \A k \in DOMAIN OrdinalCategories :
            LET col == Col(M, k) IN
            /\ SeqToSet(OrdinalCategories[k]) = SeqToSet(col)
            /\ \A i \in DOMAIN col :
                rank[i][k] = Cardinality({c \in SeqToSet(col) : Ord(c) < Ord(col[i])})

\* C6 witness: the training rows meet the categories of an ordinal column in
\* another order than the sorted one.
C6_Witness ==
    /\ Completed("fit")
    /\ LET M == OrdinalImputedTrain IN
       \E k \in DOMAIN OrdinalCategories : Encounter(Col(M, k)) # OrdinalCategories[k]

NoRepeats(s) == Cardinality(SeqToSet(s)) = Len(s)

\* C7: the three lists share no name and repeat none, SalePrice is in none,
\* every selected feature column is in exactly one list, and the columns of
\* train_features, val_features and test_features are the union of the lists.
C7_ColumnGroups ==
    LET N == SeqToSet(nominal)
        O == SeqToSet(ordinal)
        U == SeqToSet(numerical)
    IN /\ N \cap O = {} /\ N \cap U = {} /\ O \cap U = {}
       /\ NoRepeats(nominal) /\ NoRepeats(ordinal) /\ NoRepeats(numerical)
       /\ SalePrice \notin N \cup O \cup U
       /\ Completed("select_train") => SeqToSet(train_features.columns) = N \cup O \cup U
       /\ Completed("select_val") => SeqToSet(val_features.columns) = N \cup O \cup U
       /\ Completed("select_test") =>
            /\ SeqToSet(test_features.columns) = N \cup O \cup U
            /\ \A c \in SeqToSet(test_features.columns) :
                 Cardinality({g \in {"nominal", "ordinal", "numerical"} :
                     c \in (CASE g = "nominal" -> N [] g = "ordinal" -> O [] OTHER -> U)}) = 1

\* C7 witness: the three feature tables were selected.
C7_Witness == Completed("select_test") /\ Len0(test_features) >= 1

\* C8: the statements run once each, in order; once a statement raises the
\* cell is over with that statement the last one run, and what the later
\* statements would do has not happened: no score line unless it was printed
\* before, no pipeline.pkl unless it was written before, no predictions printed.
C8_ErrorsAreFatal ==
    /\ Len(trace) <= Len(Stages)
    /\ \A k \in DOMAIN trace : trace[k] = Stages[k]
    /\ error # "none" =>
        /\ pc = "aborted"
        /\ trace # <<>> /\ trace[Len(trace)] = error
        /\ StageIndex(error) <= StageIndex("print_score") => console = <<>>
        /\ StageIndex(error) <= StageIndex("dump") => artifact = <<>>
        /\ StageIndex(error) <= StageIndex("print_predictions") => Len(console) <= 1

\* C8 witness: the dump raised after the score line was printed.
C8_Witness == error = "dump" /\ Len(console) = 1 /\ artifact = <<>>

\* C9: a run that completes has printed the score line and then the
\* predictions, nothing else; the score line is there only after the fit and
\* before pipeline.pkl is written; the predictions are there only after
\* pipeline.pkl was written and loaded.
C9_ConsoleOrder ==
    /\ pc = "done" =>
        /\ Len(console) = 2
        /\ console[1].text = "Validation score:" /\ console[1].value = score
        /\ console[2].value = predictions
    /\ Len(console) >= 1 => Completed("fit") /\ console[1].text = "Validation score:"
    /\ artifact # <<>> => Len(console) >= 1
    /\ Len(console) >= 2 => artifact # <<>> /\ Completed("load")
    /\ Len(console) <= 2

\* C9 witness: a run that completed.
C9_Witness == pc = "done" /\ error = "none"

\* the categories the training partition holds in column c
TrainCategories(c) ==
    {Cell(train_features, i, c) : i \in 1..Len0(train_features)} \ {NaN}

\* a row of T holds, in an ordinal column, a category the training partition
\* does not hold in that column
UnseenOrdinal(T) ==
    \E i \in 1..Len0(T) : \E j \in DOMAIN ordinal :
        Cell(T, i, ordinal[j]) \notin TrainCategories(ordinal[j]) \cup {NaN}

\* the same, in a column in which the training partition holds a category
UnseenObservedOrdinal(T) ==
    \E i \in 1..Len0(T) : \E j \in DOMAIN ordinal :
        /\ TrainCategories(ordinal[j]) # {}
        /\ Cell(T, i, ordinal[j]) \notin TrainCategories(ordinal[j]) \cup {NaN}

\* C10 as stated: when a validation (test) row holds an ordinal category the
\* training partition does not hold in that column, score (predict) raises
\* and the run ends there.
C10_UnseenOrdinalRaises ==
    /\ Ran("score") /\ UnseenOrdinal(val_features) => error = "score" /\ pc = "aborted"
    /\ Ran("predict") /\ UnseenOrdinal(test_df) => error = "predict" /\ pc = "aborted"

\* C10 amended: the same, for an ordinal column in which the training
\* partition holds at least one value (a column with none is dropped by the
\* imputer and not encoded).
C10_UnseenObservedOrdinalRaises ==
    /\ Ran("score") /\ UnseenObservedOrdinal(val_features) => error = "score" /\ pc = "aborted"
    /\ Ran("predict") /\ UnseenObservedOrdinal(test_df) => error = "predict" /\ pc = "aborted"

\* C10 witness: score raised on such a validation row.
C10_Witness == error = "score" /\ UnseenObservedOrdinal(val_features)

\* C10, second case: predict raised on such a test row.
C10_WitnessPredict == error = "predict" /\ UnseenObservedOrdinal(test_df)

====
